---- MODULE Spec2Model ----
(***************************************************************************)
(* A model of java_type_checker/expressions.py: the expression tree of the *)
(* Java type checker, its static_type() query and its check_types() walk.  *)
(*                                                                         *)
(* Exceptions are modelled as results: every operation returns a record    *)
(* whose kind is "ok" or the class name of the exception it raises, with   *)
(* the format string and the format arguments of the message.  A raise     *)
(* inside a callee is returned, unchanged, by the caller.                  *)
(*                                                                         *)
(* check_types() also returns the steps it executed, in order, and the     *)
(* node whose frame raised: this is the position of the walk, kept so that *)
(* the order of the walk can be stated.                                    *)
(***************************************************************************)
EXTENDS Naturals, Sequences, FiniteSets

(***************************************************************************)
(* Bounds of the model.                                                    *)
(***************************************************************************)
\* the largest number of nodes of an expression tree (the left-hand side
\* variable of an assignment is not counted)
MaxSize == 4
\* the largest number of arguments of a method or constructor call
MaxArgs == 2

(***************************************************************************)
(* The type model (java_type_checker/types.py, not part of the sources):   *)
(* modelled from the specification of the type model.                      *)
(***************************************************************************)
\* JavaBuiltInTypes and the declared types: a type carries its unique name
JInt == [name |-> "int"]
JObject == [name |-> "Object"]
JString == [name |-> "String"]
JNull == [name |-> "null"]

JavaTypes == {JInt, JObject, JString, JNull}
ReferenceTypes == {JObject, JString}

\* the declared hierarchy: the direct supertypes of each type
direct_supertypes(t) == IF t = JString THEN {JObject} ELSE {}

\* JavaType.is_subtype_of: reflexive, follows the declared hierarchy, and
\* the null type is a subtype of every reference type
is_subtype_of(t, other) ==
    \/ t = other
    \/ other \in direct_supertypes(t)
    \/ \E s \in direct_supertypes(t) : other \in direct_supertypes(s)
    \/ (t = JNull /\ other \in ReferenceTypes)

\* the method names a call may use; "missing" is declared on no type
MethodNames == {"trim", "indexOf", "missing"}

\* the methods each type declares: String trim(), int indexOf(String, int)
declared_methods(t) ==
    IF t = JString
    THEN { [name |-> "trim", parameter_types |-> <<>>, return_type |-> JString],
           [name |-> "indexOf", parameter_types |-> <<JString, JInt>>,
            return_type |-> JInt] }
    ELSE {}

(***************************************************************************)
(* Text.  A string built at run time is the sequence of its pieces.        *)
(***************************************************************************)
Text(s) == <<s>>

\* str(n) of a small number
Str(n) == Text(<<"0", "1", "2", "3", "4", "5", "6", "7", "8", "9">>[n + 1])

\* ', '.join(names)
RECURSIVE Join(_)
Join(names) ==
    IF Len(names) = 0 THEN <<>>
    ELSE IF Len(names) = 1 THEN Text(names[1])
    ELSE Text(names[1]) \o Text(", ") \o Join(Tail(names))

\* results: success carrying a value, or a raised exception
Ok(v) == [kind |-> "ok", value |-> v]
Raise(k, f, a) == [kind |-> k, fmt |-> f, args |-> a]
Raised(r) == r.kind # "ok"

\* JavaType.get_method: the signature declared under that name, or
\* NoSuchJavaMethod naming the type and the method
get_method(t, name) ==
    IF \E m \in declared_methods(t) : m.name = name
    THEN Ok(CHOOSE m \in declared_methods(t) : m.name = name)
    ELSE Raise("NoSuchJavaMethod", "{0} has no method named {1}",
               <<Text(t.name), Text(name)>>)

(***************************************************************************)
(* The expression tree: the constructors of the five node classes.         *)
(***************************************************************************)
JavaVariable(name, declared_type) ==
    [cls |-> "JavaVariable", name |-> name, declared_type |-> declared_type]

JavaLiteral(value, type) ==
    [cls |-> "JavaLiteral", value |-> value, type |-> type]

JavaNullLiteral ==
    [cls |-> "JavaNullLiteral", value |-> "null", type |-> JNull]

JavaAssignment(lhs, rhs) ==
    [cls |-> "JavaAssignment", lhs |-> lhs, rhs |-> rhs]

JavaMethodCall(receiver, method_name, args) ==
    [cls |-> "JavaMethodCall", receiver |-> receiver,
     method_name |-> method_name, args |-> args]

JavaConstructorCall(instantiated_type, args) ==
    [cls |-> "JavaConstructorCall", instantiated_type |-> instantiated_type,
     args |-> args]

(***************************************************************************)
(* static_type()                                                           *)
(***************************************************************************)
\* JavaVariable.static_type
variable_type(e) == Ok(e.declared_type)

\* JavaLiteral.static_type, inherited by JavaNullLiteral
literal_type(e) == Ok(e.type)

\* variant of typed_operand: the assignment has the type of its value
typed_operand_rhs(e) == e.rhs

\* JavaAssignment.static_type: the operand whose type the assignment has
typed_operand(e) == e.lhs

\* variant of return_type: no lookup, the call has the type of its receiver
return_type_of_receiver(receiver_type, method_name) == Ok(receiver_type)

\* JavaMethodCall.static_type, once the type of the receiver is known
return_type(receiver_type, method_name) ==
    LET method == get_method(receiver_type, method_name)
    IN  IF Raised(method) THEN method ELSE Ok(method.value.return_type)

\* JavaConstructorCall.static_type
constructed_type(e) == Ok(e.instantiated_type)

RECURSIVE static_type(_)
static_type(e) ==
    CASE e.cls = "JavaVariable" -> variable_type(e)
      [] e.cls \in {"JavaLiteral", "JavaNullLiteral"} -> literal_type(e)
      [] e.cls = "JavaAssignment" -> static_type(typed_operand(e))
      [] e.cls = "JavaMethodCall" ->
            LET receiver_type == static_type(e.receiver)
            IN  IF Raised(receiver_type) THEN receiver_type
                ELSE return_type(receiver_type.value, e.method_name)
      [] e.cls = "JavaConstructorCall" -> constructed_type(e)

(***************************************************************************)
(* check_types()                                                           *)
(*                                                                         *)
(* A node is named by its path from the root: slot 0 is the left-hand side *)
(* of an assignment or the receiver of a call, slot 1 the right-hand side, *)
(* and slot i + 1 argument i of a call.                                    *)
(***************************************************************************)
\* one executed step of the walk: step s of the frame of the node at path
Step(path, s, i) == [node |-> path, step |-> s, i |-> i]

\* the frame returns normally
Done(steps) ==
    [kind |-> "ok", fmt |-> "", args |-> <<>>, at |-> <<>>, steps |-> steps]

\* the frame of the node at path raises x
Throw(x, path, steps) ==
    [kind |-> x.kind, fmt |-> x.fmt, args |-> x.args, at |-> path,
     steps |-> steps]

\* an exception raised by a callee passes through the frame
Propagate(r, steps) == [r EXCEPT !.steps = steps \o r.steps]

\* JavaExpression.check_types, inherited by a class that does not override it
not_overridden(e) ==
    Raise("NotImplementedError", "{0} must override check_types()",
          <<Text(e.cls)>>)

\* JavaAssignment.check_types: the test of the assignment
assignment_mismatch(rhs_type, lhs_type) == ~ is_subtype_of(rhs_type, lhs_type)

\* variant of assignment_error: the two type names change places
assignment_error_swapped(e, rhs_type, lhs_type) ==
    Raise("JavaTypeMismatchError",
          "Cannot assign {0} to variable {1} of type {2}",
          <<Text(lhs_type.name), Text(e.lhs.name), Text(rhs_type.name)>>)

\* JavaAssignment.check_types: the exception of a failed test
assignment_error(e, rhs_type, lhs_type) ==
    Raise("JavaTypeMismatchError",
          "Cannot assign {0} to variable {1} of type {2}",
          <<Text(rhs_type.name), Text(e.lhs.name), Text(lhs_type.name)>>)

\* variant of wrong_argument_count: only too few arguments are caught
too_few_arguments(expected_types, args) == Len(expected_types) > Len(args)

\* JavaMethodCall.check_types: the test of the number of arguments
wrong_argument_count(expected_types, args) == Len(expected_types) # Len(args)

\* JavaMethodCall.check_types: the exception of a wrong number of arguments
argument_count_error(e, receiver_type, expected_types) ==
    Raise("JavaArgumentCountError",
          "Wrong number of arguments for {}.{}(): expected {}, got {}",
          <<Text(receiver_type.name), Text(e.method_name),
            Str(Len(expected_types)), Str(Len(e.args))>>)

\* variant of argument: the arguments are taken from the last to the first
argument_from_end(e, i) == e.args[Len(e.args) - i]

\* JavaMethodCall.check_types: the argument of turn i of the loop
argument(e, i) == e.args[i + 1]

\* variant of argument_mismatch: the subtype test the wrong way round
argument_mismatch_reversed(actual_type, expected_type) ==
    ~ is_subtype_of(expected_type, actual_type)

\* JavaMethodCall.check_types: the test of one argument
argument_mismatch(actual_type, expected_type) ==
    ~ is_subtype_of(actual_type, expected_type)

\* variant of argument_error: only the failing pair is listed
argument_error_last_pair(e, receiver_type, expected_type_names, actual_type_names) ==
    Raise("JavaTypeMismatchError",
          "{}.{}() expects arguments of type ({}), but got ({})",
          <<Text(receiver_type.name), Text(e.method_name),
            Text(expected_type_names[Len(expected_type_names)]),
            Text(actual_type_names[Len(actual_type_names)])>>)

\* JavaMethodCall.check_types: the exception of a failed argument test
argument_error(e, receiver_type, expected_type_names, actual_type_names) ==
    Raise("JavaTypeMismatchError",
          "{}.{}() expects arguments of type ({}), but got ({})",
          <<Text(receiver_type.name), Text(e.method_name),
            Join(expected_type_names), Join(actual_type_names)>>)

RECURSIVE check_types(_, _), check_arguments(_, _, _, _, _, _, _, _)

\* the loop of JavaMethodCall.check_types, from argument i on
check_arguments(e, path, receiver_type, expected_types, i, expected_type_names, actual_type_names, steps) ==
    IF i >= Len(expected_types) THEN Done(steps)
    ELSE
      LET arg == argument(e, i)
          expected_type == expected_types[i + 1]
          checked == check_types(arg, Append(path, i + 1))
      IN  IF Raised(checked) THEN Propagate(checked, steps)
          ELSE
            LET actual_type == static_type(arg)
                walked == steps \o checked.steps
            IN  IF Raised(actual_type) THEN Throw(actual_type, path, walked)
                ELSE
                  LET expected_names ==
                          Append(expected_type_names, expected_type.name)
                      actual_names ==
                          Append(actual_type_names, actual_type.value.name)
                      tested ==
                          Append(walked, Step(path, "is_subtype_of", i))
                  IN  IF argument_mismatch(actual_type.value, expected_type)
                      THEN Throw(argument_error(e, receiver_type,
                                                expected_names, actual_names),
                                 path, tested)
                      ELSE check_arguments(e, path, receiver_type,
                                           expected_types, i + 1,
                                           expected_names, actual_names,
                                           tested)

check_types(e, path) ==
    LET entered == <<Step(path, "check_types", 0)>>
    IN
    CASE e.cls \in {"JavaVariable", "JavaLiteral", "JavaNullLiteral"} ->
            Done(entered)
      [] e.cls = "JavaAssignment" ->
            LET lhs == check_types(e.lhs, Append(path, 0))
            IN  IF Raised(lhs) THEN Propagate(lhs, entered)
                ELSE
            LET rhs == check_types(e.rhs, Append(path, 1))
                walked == entered \o lhs.steps
            IN  IF Raised(rhs) THEN Propagate(rhs, walked)
                ELSE
            LET lhs_type == static_type(e.lhs)
                rhs_type == static_type(e.rhs)
                typed == walked \o rhs.steps
                tested == Append(typed, Step(path, "is_subtype_of", 0))
            IN  IF Raised(lhs_type) THEN Throw(lhs_type, path, typed)
                ELSE IF Raised(rhs_type) THEN Throw(rhs_type, path, typed)
                ELSE IF assignment_mismatch(rhs_type.value, lhs_type.value)
                THEN Throw(assignment_error(e, rhs_type.value, lhs_type.value),
                           path, tested)
                ELSE Done(tested)
      [] e.cls = "JavaMethodCall" ->
            LET receiver == check_types(e.receiver, Append(path, 0))
            IN  IF Raised(receiver) THEN Propagate(receiver, entered)
                ELSE
            LET receiver_type == static_type(e.receiver)
                walked == entered \o receiver.steps
            IN  IF Raised(receiver_type) THEN Throw(receiver_type, path, walked)
                ELSE
            LET method == get_method(receiver_type.value, e.method_name)
                looked_up == Append(walked, Step(path, "get_method", 0))
            IN  IF Raised(method) THEN Throw(method, path, looked_up)
                ELSE
            LET expected_types == method.value.parameter_types
                counted == Append(looked_up, Step(path, "len", 0))
            IN  IF wrong_argument_count(expected_types, e.args)
                THEN Throw(argument_count_error(e, receiver_type.value,
                                                expected_types),
                           path, counted)
                ELSE check_arguments(e, path, receiver_type.value,
                                     expected_types, 0, <<>>, <<>>, counted)
      [] e.cls = "JavaConstructorCall" ->
            Throw(not_overridden(e), path, entered)

(***************************************************************************)
(* The trees the producer may build: every tree of at most MaxSize nodes   *)
(* over a few variables, literals, method names and instantiated types.    *)
(***************************************************************************)
DeclaredVariables ==
    { JavaVariable("x", JInt), JavaVariable("s", JString),
      JavaVariable("o", JObject) }

Literals == { JavaLiteral("5", JInt), JavaNullLiteral }

InstantiatedTypes == { JString }

RECURSIVE ExprSeqs(_, _, _), ExprsBySize(_)

\* the sequences of n expressions with total nodes in all, bySize[k] being
\* the expressions of k nodes
ExprSeqs(bySize, total, n) ==
    IF n = 0 THEN (IF total = 0 THEN { <<>> } ELSE {})
    ELSE UNION { { <<e>> \o rest : e \in bySize[k],
                                   rest \in ExprSeqs(bySize, total - k, n - 1) } :
                 k \in 1..(total - (n - 1)) }

\* the expressions of size nodes, built from the smaller ones
ExprsOfSize(bySize, size) ==
    (IF size = 1 THEN DeclaredVariables \cup Literals ELSE {})
    \cup (IF size = 1 THEN {}
          ELSE { JavaAssignment(v, rhs) : v \in DeclaredVariables,
                                          rhs \in bySize[size - 1] })
    \cup UNION { { JavaMethodCall(Head(c), m, Tail(c)) :
                      c \in ExprSeqs(bySize, size - 1, n + 1),
                      m \in MethodNames } :
                 n \in 0..MaxArgs }
    \cup UNION { { JavaConstructorCall(t, a) :
                      a \in ExprSeqs(bySize, size - 1, n),
                      t \in InstantiatedTypes } :
                 n \in 0..MaxArgs }

\* <<the expressions of 1 node, ..., the expressions of size nodes>>
ExprsBySize(size) ==
    IF size = 0 THEN <<>>
    ELSE LET smaller == ExprsBySize(size - 1)
         IN  Append(smaller, ExprsOfSize(smaller, size))

\* the expressions a child of the root may be, by size
BySize == ExprsBySize(MaxSize - 1)

(***************************************************************************)
(* The state: the tree the producer built, and what the caller got back    *)
(* from the two operations on its root.                                    *)
(***************************************************************************)
VARIABLES root, checked, typed

vars == <<root, checked, typed>>

NotCalled == [kind |-> "not called"]

\* the producer builds the root from children of fewer nodes
Init ==
    /\ \E size \in 1..MaxSize :
          \/ /\ size = 1
             /\ root \in DeclaredVariables \cup Literals
          \/ /\ size > 1
             /\ \E v \in DeclaredVariables, rhs \in BySize[size - 1] :
                   root = JavaAssignment(v, rhs)
          \/ \E k \in 1..(size - 1), n \in 0..MaxArgs :
                \E receiver \in BySize[k], m \in MethodNames,
                   args \in ExprSeqs(BySize, size - 1 - k, n) :
                      root = JavaMethodCall(receiver, m, args)
          \/ /\ size = 1
             /\ \E t \in InstantiatedTypes : root = JavaConstructorCall(t, <<>>)
          \/ \E k \in 1..(size - 1), n \in 1..MaxArgs :
                \E t \in InstantiatedTypes, first \in BySize[k],
                   rest \in ExprSeqs(BySize, size - 1 - k, n - 1) :
                      root = JavaConstructorCall(t, <<first>> \o rest)
    /\ checked = NotCalled
    /\ typed = NotCalled

\* the caller validates the tree
CheckTypes ==
    /\ checked = NotCalled
    /\ checked' = check_types(root, <<>>)
    /\ UNCHANGED <<root, typed>>

\* the caller asks for the static type of the tree
StaticType ==
    /\ typed = NotCalled
    /\ typed' = static_type(root)
    /\ UNCHANGED <<root, checked>>

Next == CheckTypes \/ StaticType

Spec == Init /\ [][Next]_vars

(***************************************************************************)
(* What the properties speak of.                                           *)
(***************************************************************************)
Called(r) == r # NotCalled

\* two results are the same exception, or both success
SameOutcome(a, b) ==
    /\ a.kind = b.kind
    /\ Raised(a) => (a.fmt = b.fmt /\ a.args = b.args)

\* the children of a node, child at slot i being the (i + 1)-th
Children(e) ==
    CASE e.cls = "JavaAssignment" -> <<e.lhs, e.rhs>>
      [] e.cls = "JavaMethodCall" -> <<e.receiver>> \o e.args
      [] e.cls = "JavaConstructorCall" -> e.args
      [] OTHER -> <<>>

\* the node at a path below e
RECURSIVE NodeAt(_, _)
NodeAt(e, path) ==
    IF path = <<>> THEN e
    ELSE NodeAt(Children(e)[Head(path) + 1], Tail(path))

\* every node of the tree e, e included
RECURSIVE Nodes(_)
Nodes(e) ==
    {e} \cup UNION { Nodes(e.args[i]) :
                       i \in (IF e.cls \in {"JavaMethodCall", "JavaConstructorCall"}
                              THEN 1..Len(e.args) ELSE {}) }
        \cup (IF e.cls = "JavaAssignment" THEN Nodes(e.lhs) \cup Nodes(e.rhs)
              ELSE {})
        \cup (IF e.cls = "JavaMethodCall" THEN Nodes(e.receiver) ELSE {})

\* the names of a sequence of types
RECURSIVE Names(_)
Names(types) ==
    IF types = <<>> THEN <<>> ELSE <<Head(types).name>> \o Names(Tail(types))

\* the declared type of an expression, by the table of the specification;
\* Undefined where a method name does not resolve
Undefined == [name |-> "undefined"]

RECURSIVE TypeOf(_)
TypeOf(e) ==
    CASE e.cls = "JavaVariable" -> e.declared_type
      [] e.cls \in {"JavaLiteral", "JavaNullLiteral"} -> e.type
      [] e.cls = "JavaAssignment" -> e.lhs.declared_type
      [] e.cls = "JavaConstructorCall" -> e.instantiated_type
      [] e.cls = "JavaMethodCall" ->
            LET t == TypeOf(e.receiver)
                ms == { m \in declared_methods(t) : m.name = e.method_name }
            IN  IF ms = {} THEN Undefined
                ELSE (CHOOSE m \in ms : TRUE).return_type

\* the signature a method call resolves to; only where Resolves(e)
Resolves(e) ==
    \E m \in declared_methods(TypeOf(e.receiver)) : m.name = e.method_name

Signature(e) ==
    CHOOSE m \in declared_methods(TypeOf(e.receiver)) : m.name = e.method_name

(***************************************************************************)
(* C7: static_type() is decided by the structure of the node alone: a      *)
(* variable has its declared type, a literal its fixed type (the null type *)
(* for the null literal), an assignment the type of its left-hand side, a  *)
(* constructor call its instantiated type, a method call the return type   *)
(* of the method looked up on the type of its receiver; the only exception *)
(* it raises is the NoSuchJavaMethod of that lookup.  This holds of the    *)
(* root, as the caller saw it, and of every node of the tree.              *)
(***************************************************************************)
StaticTypeByTable(e, r) ==
    /\ r.kind \in {"ok", "NoSuchJavaMethod"}
    /\ r.kind = "ok" <=> TypeOf(e) # Undefined
    /\ r.kind = "ok" => r.value = TypeOf(e)
    /\ e.cls = "JavaNullLiteral" => r = Ok(JNull)
    /\ e.cls = "JavaAssignment" => r = Ok(e.lhs.declared_type)
    /\ (e.cls = "JavaMethodCall" /\ TypeOf(e.receiver) # Undefined) =>
          IF Resolves(e) THEN r = Ok(Signature(e).return_type)
          ELSE r = Raise("NoSuchJavaMethod", "{0} has no method named {1}",
                         <<Text(TypeOf(e.receiver).name), Text(e.method_name)>>)

C7_StaticTypeByStructure ==
    /\ Called(typed) => StaticTypeByTable(root, typed)
    /\ \A e \in Nodes(root) : StaticTypeByTable(e, static_type(e))

\* an assignment whose right-hand side does not conform, or does not even
\* have a type, was asked for its type and answered the left-hand side's
C7_Witness ==
    /\ root.cls = "JavaAssignment"
    /\ \/ TypeOf(root.rhs) = Undefined
       \/ ~ is_subtype_of(TypeOf(root.rhs), root.lhs.declared_type)
    /\ root.rhs.cls \in {"JavaMethodCall", "JavaAssignment"}
    /\ Called(typed)
    /\ typed = Ok(root.lhs.declared_type)
    /\ Called(checked) /\ Raised(checked)

\* an expression that raises one of the type errors when validated alone
IllTyped(e) ==
    check_types(e, <<>>).kind \in {"JavaTypeMismatchError", "NoSuchJavaMethod",
                                   "JavaArgumentCountError"}

\* no step of the walk r was executed in an argument of the root
NoArgumentEntered(r) ==
    \A j \in 1..Len(r.steps) :
        r.steps[j].node = <<>> \/ Head(r.steps[j].node) = 0

\* the types of a sequence of expressions
RECURSIVE TypesOf(_)
TypesOf(es) ==
    IF es = <<>> THEN <<>> ELSE <<TypeOf(Head(es))>> \o TypesOf(Tail(es))

(***************************************************************************)
(* C6: an assignment whose two sides validate and whose right-hand side    *)
(* has a type that is not a subtype of the type of the variable raises     *)
(* JavaTypeMismatchError, whose message names the type of the value, the   *)
(* name of the variable and the declared type of the variable, in that     *)
(* order; the assignment itself raises it in no other case.                *)
(***************************************************************************)
SidesValidate(e) ==
    /\ ~ Raised(check_types(e.lhs, <<0>>))
    /\ ~ Raised(check_types(e.rhs, <<1>>))

C6_AssignmentRejection ==
    (root.cls = "JavaAssignment" /\ Called(checked)) =>
        LET rejected == /\ SidesValidate(root)
                        /\ ~ is_subtype_of(TypeOf(root.rhs), TypeOf(root.lhs))
            raised == checked.kind = "JavaTypeMismatchError" /\ checked.at = <<>>
        IN  /\ rejected <=> raised
            /\ raised =>
                  /\ checked.fmt = "Cannot assign {0} to variable {1} of type {2}"
                  /\ checked.args = << Text(TypeOf(root.rhs).name),
                                       Text(root.lhs.name),
                                       Text(root.lhs.declared_type.name) >>

\* an Object, the result of a nested assignment, assigned to a String
C6_Witness ==
    /\ root.cls = "JavaAssignment"
    /\ root.rhs.cls = "JavaAssignment"
    /\ root.lhs.declared_type = JString
    /\ TypeOf(root.rhs) = JObject
    /\ SidesValidate(root)
    /\ Called(checked)
    /\ checked.kind = "JavaTypeMismatchError"
    /\ checked.args = <<Text("Object"), Text(root.lhs.name), Text("String")>>

(***************************************************************************)
(* C2: a method call whose receiver validates and whose method resolves,   *)
(* with a number of arguments other than the number of declared            *)
(* parameters, raises JavaArgumentCountError carrying the expected and the *)
(* actual count, and no argument was validated before: no step of the walk *)
(* lies in an argument, whatever the arguments are.                        *)
(***************************************************************************)
WrongCount(e) ==
    /\ e.cls = "JavaMethodCall"
    /\ ~ Raised(check_types(e.receiver, <<0>>))
    /\ Resolves(e)
    /\ Len(e.args) # Len(Signature(e).parameter_types)

C2_ArityFirst ==
    (WrongCount(root) /\ Called(checked)) =>
        /\ checked.kind = "JavaArgumentCountError"
        /\ checked.at = <<>>
        /\ checked.fmt = "Wrong number of arguments for {}.{}(): expected {}, got {}"
        /\ checked.args = << Text(TypeOf(root.receiver).name),
                             Text(root.method_name),
                             Str(Len(Signature(root).parameter_types)),
                             Str(Len(root.args)) >>
        /\ NoArgumentEntered(checked)

\* a call with an argument too many, which is itself ill-typed
C2_Witness ==
    /\ WrongCount(root)
    /\ Len(root.args) > Len(Signature(root).parameter_types)
    /\ \E i \in 1..Len(root.args) : IllTyped(root.args[i])
    /\ Called(checked)
    /\ checked.kind = "JavaArgumentCountError"

(***************************************************************************)
(* C4: a method call whose receiver validates and whose method name is not *)
(* declared on the type of the receiver raises NoSuchJavaMethod from       *)
(* check_types(), before the count of the arguments and before any         *)
(* argument is validated, and static_type() of the same node raises the    *)
(* same exception instead of returning a type.                             *)
(***************************************************************************)
Unresolved(e) ==
    /\ e.cls = "JavaMethodCall"
    /\ ~ Raised(check_types(e.receiver, <<0>>))
    /\ ~ Resolves(e)

C4_NoSuchMethodFirst ==
    Unresolved(root) =>
        /\ Called(checked) =>
              /\ checked.kind = "NoSuchJavaMethod"
              /\ checked.at = <<>>
              /\ checked.args = << Text(TypeOf(root.receiver).name),
                                   Text(root.method_name) >>
              /\ NoArgumentEntered(checked)
              /\ \A j \in 1..Len(checked.steps) :
                    checked.steps[j] # Step(<<>>, "len", 0)
        /\ Called(typed) =>
              /\ typed.kind = "NoSuchJavaMethod"
              /\ typed.args = << Text(TypeOf(root.receiver).name),
                                 Text(root.method_name) >>
        /\ (Called(checked) /\ Called(typed)) => SameOutcome(checked, typed)

\* an undeclared method called with an ill-typed argument
C4_Witness ==
    /\ Unresolved(root)
    /\ \E i \in 1..Len(root.args) : IllTyped(root.args[i])
    /\ Called(checked) /\ checked.kind = "NoSuchJavaMethod"
    /\ Called(typed) /\ typed.kind = "NoSuchJavaMethod"

(***************************************************************************)
(* C10: when a method call itself raises JavaTypeMismatchError for an      *)
(* argument, k being the position of the first argument that does not      *)
(* conform, the message lists the declared parameter types of positions    *)
(* 0..k and the types of the arguments of positions 0..k, in order: k + 1  *)
(* names each, the pairs before k conform and the pair at k does not.      *)
(***************************************************************************)
\* position k (from 0) is the first whose argument does not conform
FirstMismatch(e, k) ==
    LET expected == Signature(e).parameter_types
    IN  /\ k < Len(e.args)
        /\ ~ is_subtype_of(TypeOf(e.args[k + 1]), expected[k + 1])
        /\ \A j \in 1..k : is_subtype_of(TypeOf(e.args[j]), expected[j])

C10_MismatchPayload ==
    ( /\ root.cls = "JavaMethodCall"
      /\ Called(checked)
      /\ checked.kind = "JavaTypeMismatchError"
      /\ checked.at = <<>> ) =>
        /\ Resolves(root)
        /\ Len(root.args) = Len(Signature(root).parameter_types)
        /\ \E k \in 0..(Len(root.args) - 1) :
              /\ FirstMismatch(root, k)
              /\ checked.args[3] =
                    Join(Names(SubSeq(Signature(root).parameter_types, 1, k + 1)))
              /\ checked.args[4] =
                    Join(Names(SubSeq(TypesOf(root.args), 1, k + 1)))

\* the second of two arguments is the first that does not conform: two
\* names are listed on each side
C10_Witness ==
    /\ root.cls = "JavaMethodCall"
    /\ Called(checked)
    /\ checked.kind = "JavaTypeMismatchError"
    /\ checked.at = <<>>
    /\ FirstMismatch(root, 1)
    /\ checked.args[3] = <<"String", ", ", "int">>
    /\ checked.args[4] = <<"String", ", ", "String">>

(***************************************************************************)
(* The type rules, node by node, as the walk is meant to enforce them.     *)
(***************************************************************************)
\* the rule of the node e itself, its children set aside
NodeRule(e) ==
    CASE e.cls = "JavaAssignment" ->
            /\ TypeOf(e.rhs) # Undefined
            /\ is_subtype_of(TypeOf(e.rhs), TypeOf(e.lhs))
      [] e.cls = "JavaMethodCall" ->
            /\ TypeOf(e.receiver) # Undefined
            /\ Resolves(e)
            /\ Len(e.args) = Len(Signature(e).parameter_types)
            /\ \A i \in 1..Len(e.args) :
                  /\ TypeOf(e.args[i]) # Undefined
                  /\ is_subtype_of(TypeOf(e.args[i]),
                                   Signature(e).parameter_types[i])
      [] OTHER -> TRUE

\* every node of the tree obeys its rule
WellTyped(e) == \A n \in Nodes(e) : NodeRule(n)

\* the paths of all nodes of the tree e
RECURSIVE Paths(_)
Paths(e) ==
    { <<>> } \cup UNION { { <<i - 1>> \o p : p \in Paths(Children(e)[i]) } :
                          i \in 1..Len(Children(e)) }

\* the nodes whose check_types() was entered in the walk r
Entered(r) ==
    { r.steps[j].node : j \in { i \in 1..Len(r.steps) :
                                  r.steps[i].step = "check_types" } }

(***************************************************************************)
(* C9: if check_types() of the root returns, every node of the tree was    *)
(* visited and obeys its rule: each assignment has a right-hand side whose *)
(* type is a subtype of the type of its variable, each method call         *)
(* resolves, has as many arguments as declared parameters and each         *)
(* argument conforms to its parameter; and static_type() of every node     *)
(* returns a type.                                                         *)
(***************************************************************************)
C9_SuccessIsSound ==
    (Called(checked) /\ checked.kind = "ok") =>
        /\ Entered(checked) = Paths(root)
        /\ WellTyped(root)
        /\ \A n \in Nodes(root) : static_type(n).kind = "ok"

\* a call of two arguments validated
C9_Witness ==
    /\ root.cls = "JavaMethodCall"
    /\ Len(root.args) = 2
    /\ Called(checked)
    /\ checked.kind = "ok"

(***************************************************************************)
(* C8: the walk is depth first and left to right, and stops at the first   *)
(* step that raises.  The plan of a node lists the steps of a complete     *)
(* walk: an assignment enters its left-hand side, then its right-hand      *)
(* side, then tests them; a method call enters its receiver, looks the     *)
(* method up, counts the arguments, then for each position in order enters *)
(* the argument and tests it.  The steps executed are the plan up to and   *)
(* including the first step that raises, the root raises what that step    *)
(* raises, unchanged, and it returns only when no step raises.             *)
(***************************************************************************)
RECURSIVE Plan(_, _), ArgumentPlan(_, _, _)

ArgumentPlan(e, path, i) ==
    IF i >= Len(e.args) THEN <<>>
    ELSE Plan(e.args[i + 1], Append(path, i + 1))
         \o <<Step(path, "is_subtype_of", i)>>
         \o ArgumentPlan(e, path, i + 1)

Plan(e, path) ==
    <<Step(path, "check_types", 0)>> \o
    CASE e.cls = "JavaAssignment" ->
            Plan(e.lhs, Append(path, 0)) \o Plan(e.rhs, Append(path, 1))
            \o <<Step(path, "is_subtype_of", 0)>>
      [] e.cls = "JavaMethodCall" ->
            Plan(e.receiver, Append(path, 0))
            \o <<Step(path, "get_method", 0), Step(path, "len", 0)>>
            \o ArgumentPlan(e, path, 0)
      [] OTHER -> <<>>

NoError == [kind |-> "none"]

\* what the step st of the plan of the tree raises, taken alone
StepError(tree, st) ==
    LET n == NodeAt(tree, st.node)
    IN
    CASE st.step = "check_types" ->
            IF n.cls = "JavaConstructorCall"
            THEN Raise("NotImplementedError", "{0} must override check_types()",
                       <<Text("JavaConstructorCall")>>)
            ELSE NoError
      [] st.step = "get_method" ->
            IF TypeOf(n.receiver) # Undefined /\ ~ Resolves(n)
            THEN Raise("NoSuchJavaMethod", "{0} has no method named {1}",
                       <<Text(TypeOf(n.receiver).name), Text(n.method_name)>>)
            ELSE NoError
      [] st.step = "len" ->
            IF Resolves(n) /\ Len(n.args) # Len(Signature(n).parameter_types)
            THEN Raise("JavaArgumentCountError",
                       "Wrong number of arguments for {}.{}(): expected {}, got {}",
                       <<Text(TypeOf(n.receiver).name), Text(n.method_name),
                         Str(Len(Signature(n).parameter_types)),
                         Str(Len(n.args))>>)
            ELSE NoError
      [] st.step = "is_subtype_of" /\ n.cls = "JavaAssignment" ->
            IF /\ TypeOf(n.rhs) # Undefined
               /\ ~ is_subtype_of(TypeOf(n.rhs), TypeOf(n.lhs))
            THEN Raise("JavaTypeMismatchError",
                       "Cannot assign {0} to variable {1} of type {2}",
                       <<Text(TypeOf(n.rhs).name), Text(n.lhs.name),
                         Text(TypeOf(n.lhs).name)>>)
            ELSE NoError
      [] st.step = "is_subtype_of" /\ n.cls = "JavaMethodCall" ->
            IF /\ Resolves(n)
               /\ st.i < Len(Signature(n).parameter_types)
               /\ TypeOf(n.args[st.i + 1]) # Undefined
               /\ ~ is_subtype_of(TypeOf(n.args[st.i + 1]),
                                  Signature(n).parameter_types[st.i + 1])
            THEN Raise("JavaTypeMismatchError",
                       "{}.{}() expects arguments of type ({}), but got ({})",
                       <<Text(TypeOf(n.receiver).name), Text(n.method_name),
                         Join(Names(SubSeq(Signature(n).parameter_types,
                                           1, st.i + 1))),
                         Join(Names(SubSeq(TypesOf(n.args), 1, st.i + 1)))>>)
            ELSE NoError

\* the positions of the plan of the tree whose step raises
Raising(tree) ==
    LET plan == Plan(tree, <<>>)
    IN  { j \in 1..Len(plan) : StepError(tree, plan[j]) # NoError }

First(S) == CHOOSE j \in S : \A k \in S : j <= k

C8_FirstViolationAborts ==
    Called(checked) =>
        LET plan == Plan(root, <<>>)
            raising == Raising(root)
        IN  IF raising = {}
            THEN checked.kind = "ok" /\ checked.steps = plan
            ELSE LET first == First(raising)
                     error == StepError(root, plan[first])
                 IN  /\ SameOutcome(checked, error)
                     /\ checked.at = plan[first].node
                     /\ checked.steps = SubSeq(plan, 1, first)
                     /\ SameOutcome(checked,
                                    check_types(NodeAt(root, checked.at),
                                                checked.at))

\* two arguments that both do not conform: the first is reported and the
\* second is never entered
C8_Witness ==
    /\ root.cls = "JavaMethodCall"
    /\ Len(root.args) = 2
    /\ Cardinality(Raising(root)) >= 2
    /\ Called(checked)
    /\ checked.kind = "JavaTypeMismatchError"
    /\ checked.at = <<>>
    /\ checked.steps[Len(checked.steps)] = Step(<<>>, "is_subtype_of", 0)
    /\ <<2>> \notin Entered(checked)

(***************************************************************************)
(* C1: for a variable v of declared type D and an expression e of any of   *)
(* the five classes that obeys the type rules and whose static type is a   *)
(* subtype of D, check_types() of the assignment of e to v returns and its *)
(* static_type() is D.                                                     *)
(***************************************************************************)
C1_AssignmentTyping ==
    ( /\ root.cls = "JavaAssignment"
      /\ WellTyped(root.rhs)
      /\ is_subtype_of(TypeOf(root.rhs), root.lhs.declared_type) ) =>
        /\ Called(checked) => checked.kind = "ok"
        /\ Called(typed) => typed = Ok(root.lhs.declared_type)

(***************************************************************************)
(* C3: a method call with the right number n of arguments, each of them    *)
(* valid, whose first argument that does not conform is at position k,     *)
(* raises JavaTypeMismatchError whose message lists all n declared         *)
(* parameter types and the types of all n arguments.                       *)
(***************************************************************************)
C3_FullSequencesListed ==
    ( /\ root.cls = "JavaMethodCall"
      /\ ~ Raised(check_types(root.receiver, <<0>>))
      /\ Resolves(root)
      /\ Len(root.args) = Len(Signature(root).parameter_types)
      /\ \A i \in 1..Len(root.args) : ~ Raised(check_types(root.args[i], <<i>>))
      /\ \E k \in 0..(Len(root.args) - 1) : FirstMismatch(root, k)
      /\ Called(checked) ) =>
        /\ checked.kind = "JavaTypeMismatchError"
        /\ checked.args[3] = Join(Names(Signature(root).parameter_types))
        /\ checked.args[4] = Join(Names(TypesOf(root.args)))

(***************************************************************************)
(* C5: check_types() of any tree ends in success or in one exception of    *)
(* the closed set of type errors, and a constructor call is checked        *)
(* without raising.                                                        *)
(***************************************************************************)
TypeErrors ==
    { "JavaTypeMismatchError", "JavaArgumentCountError", "NoSuchJavaMethod",
      "JavaIllegalInstantiationError" }

C5_ClosedOutcomes ==
    Called(checked) =>
        /\ checked.kind \in {"ok"} \cup TypeErrors
        /\ root.cls = "JavaConstructorCall" => checked.kind = "ok"

====
